---- MODULE Spec2Model ----
(***************************************************************************)
(* policies-benchmark.py: the raid1 read-policy benchmark loop.            *)
(*                                                                         *)
(* main() discovers the read policies of a btrfs filesystem, and for each  *)
(* policy enters `with btrfs.set_policy(fsid, policy)`, runs four fio jobs *)
(* (sequential/random x single/multi thread), appends one row to the       *)
(* table inside the with block, leaves the with block (which restores the  *)
(* previous policy) and finally prints the table.                          *)
(*                                                                         *)
(* The modules btrfs and fio are imported by the script but are not part   *)
(* of the source tree at hand; their operations (get_policies, set_policy, *)
(* run_fio_pipe, the job builders) are modelled from the specification.    *)
(***************************************************************************)
EXTENDS Integers, Sequences, FiniteSets, TLC

VARIABLES
    args,      \* the parsed command line: [loops, size] (line 41)
    pc,        \* position of main(): the statement about to execute
    policies,  \* the sequence btrfs.get_policies(fsid) returned (line 59)
    idx,       \* 1-based position of the for loop in policies (0: not started)
    active,    \* the volume's currently active read policy
    initial,   \* history: the policy active when main() started
    scopes,    \* stack of open set_policy contexts: [policy, prior]
    bw,        \* the locals bw_* of main(): workload -> <<min, max, sum>> or <<>>
    table,     \* the local `table` (line 58)
    err,       \* the exception in flight or that ended main(); "none" otherwise
    log,       \* history: the externally visible steps taken, in order
    printed    \* what print(tabulate(...)) wrote (line 97); <<>> while nothing

vars == <<args, pc, policies, idx, active, initial, scopes, bw, table, err, log, printed>>

----------------------------------------------------------------------------
(* Bounds of the model *)

MaxPolicies == 2
NumThreads == 2
MaxBw == 2

PolicyIds == {"pid", "roundrobin"}

PolicyLists == UNION {[1..n -> PolicyIds] : n \in 0..MaxPolicies}

----------------------------------------------------------------------------
(* The four workloads, in the order main() runs them (lines 63-81) *)

Workloads == <<"seq1", "seqN", "rand1", "randN">>

WorkloadSet == {Workloads[k] : k \in 1..Len(Workloads)}

thread_count(w) == IF w \in {"seq1", "rand1"} THEN 1 ELSE NumThreads

\* Variant: the two single-thread runs come first.
AfterRunSingleFirst(w) ==
    CASE w = "seq1" -> "rand1"
      [] w = "rand1" -> "seqN"
      [] w = "seqN" -> "randN"
      [] w = "randN" -> "append"

\* Variant: the with block ends after the last run; the row comes later.
AfterRunReleasesBeforeRow(w) ==
    CASE w = "seq1" -> "seqN"
      [] w = "seqN" -> "rand1"
      [] w = "rand1" -> "randN"
      [] w = "randN" -> "exit"

\* The statement that follows the run of workload w inside the with block.
AfterRun(w) ==
    CASE w = "seq1" -> "seqN"
      [] w = "seqN" -> "rand1"
      [] w = "rand1" -> "randN"
      [] w = "randN" -> "append"

----------------------------------------------------------------------------
(* The fio invocation and its output (module fio) *)

Units == {"KiB/s", "MiB/s"}

\* A bandwidth of v MiB/s as fio prints it in unit u.
Raw(v, u) == IF u = "KiB/s" THEN <<1024 * v, u>> ELSE <<v, u>>

\* The per-worker reports of an invocation that printed n of them: the
\* bandwidths 1..n MiB/s in any order, each in either unit.
Reports(n) ==
    {[k \in 1..n |-> Raw(f[k], u[k])] :
        f \in {g \in [1..n -> 1..n] : \A a, b \in 1..n : a # b => g[a] # g[b]},
        u \in [1..n -> Units]}

\* What one fio invocation of a job with tc threads can come back with: a
\* non-zero exit status, or exit status 0 and any number of per-worker
\* bandwidth values (fewer than, exactly, or more than tc).
GenOutcomes(tc) ==
    {[rc |-> 1, bws |-> <<>>]} \cup
    {[rc |-> 0, bws |-> s] : s \in UNION {Reports(n) : n \in 0..(tc + 1)}}

\* to_mibs=True: every measurement normalised to MiB/s.
to_mibs(m) == IF m[2] = "KiB/s" THEN m[1] \div 1024 ELSE m[1]

RECURSIVE SeqMin(_), SeqMax(_), SeqSum(_)
SeqMin(s) ==
    IF Len(s) = 1 THEN s[1]
    ELSE LET r == SeqMin(Tail(s)) IN IF s[1] < r THEN s[1] ELSE r

SeqMax(s) ==
    IF Len(s) = 1 THEN s[1]
    ELSE LET r == SeqMax(Tail(s)) IN IF s[1] > r THEN s[1] ELSE r

SeqSum(s) == IF s = <<>> THEN 0 ELSE s[1] + SeqSum(Tail(s))

\* Variant: the aggregate is the mean of the workers, not their sum.
reduce_mean(ms) ==
    IF ms = <<>>
    THEN [error |-> "EmptyMeasurementSetError", value |-> <<>>]
    ELSE [error |-> "none",
          value |-> <<SeqMin(ms), SeqMax(ms), SeqSum(ms) \div Len(ms)>>]

\* ResultAggregator.reduce: (min, max, sum) of a non-empty sequence.
reduce(ms) ==
    IF ms = <<>>
    THEN [error |-> "EmptyMeasurementSetError", value |-> <<>>]
    ELSE [error |-> "none", value |-> <<SeqMin(ms), SeqMax(ms), SeqSum(ms)>>]

\* Variant: surplus per-worker values are cut off.
run_truncating(out, tc) ==
    IF out.rc # 0
    THEN [error |-> "GeneratorExecutionError", value |-> <<>>]
    ELSE IF Len(out.bws) < tc
    THEN [error |-> "GeneratorOutputError", value |-> <<>>]
    ELSE [error |-> "none", value |-> [k \in 1..tc |-> to_mibs(out.bws[k])]]

\* LoadRunner.run: the per-worker bandwidths of one fio invocation of a job
\* with tc threads, in MiB/s, or an error.
run(out, tc) ==
    IF out.rc # 0
    THEN [error |-> "GeneratorExecutionError", value |-> <<>>]
    ELSE IF Len(out.bws) # tc
    THEN [error |-> "GeneratorOutputError", value |-> <<>>]
    ELSE [error |-> "none",
          value |-> [k \in 1..Len(out.bws) |-> to_mibs(out.bws[k])]]

\* fio.run_fio_pipe(job, to_mibs=True): runs fio on the job and returns
\* (min, max, sum) of the per-worker bandwidths, or raises.
run_fio_pipe(out, tc) ==
    LET m == run(out, tc) IN
      IF m.error # "none" THEN m ELSE reduce(m.value)

\* The values --loops and --size can take (lines 34-37): loops absent (<<>>)
\* or an integer, size a string.
LoopsArgs == {<<>>, <<-1>>, <<0>>, <<1>>}
SizeArgs == {"", "10M"}

\* Variant: a loop count of zero is let through.
build_job_accepts_zero(w, a) ==
    IF a.size = "" \/ (a.loops # <<>> /\ a.loops[1] < 0)
    THEN [error |-> "InvalidSpecError"]
    ELSE [error |-> "none",
          mode |-> IF w \in {"seq1", "seqN"} THEN "sequential" ELSE "random",
          thread_count |-> thread_count(w),
          loop_count |-> a.loops,
          io_size |-> a.size]

\* fio.job_{seq,rand}read_{single,multi}thread(loops, size): the descriptor
\* of workload w, or InvalidSpecError for an empty size or a loop count
\* that is given and not positive.
build_job(w, a) ==
    IF a.size = "" \/ (a.loops # <<>> /\ a.loops[1] <= 0)
    THEN [error |-> "InvalidSpecError"]
    ELSE [error |-> "none",
          mode |-> IF w \in {"seq1", "seqN"} THEN "sequential" ELSE "random",
          thread_count |-> thread_count(w),
          loop_count |-> a.loops,
          io_size |-> a.size]

GeneratorErrors == {"GeneratorExecutionError", "GeneratorOutputError"}

----------------------------------------------------------------------------
(* The volume's read policy (module btrfs) *)

\* Entering btrfs.set_policy(fsid, policy): reads the active policy and
\* writes the requested one.  writeOk tells whether the volume accepts the
\* write; a rejected write raises and leaves the volume as it was.
set_policy_enter(vol, policy, writeOk) ==
    IF writeOk
    THEN [error |-> "none", active |-> policy,
          scope |-> [policy |-> policy, prior |-> vol]]
    ELSE [error |-> "PolicyWriteError", active |-> vol,
          scope |-> [policy |-> policy, prior |-> vol]]

\* Leaving btrfs.set_policy: writes the prior policy back; a failing write
\* is logged as a warning and not raised.
set_policy_exit(vol, scope, writeOk) ==
    IF writeOk
    THEN [active |-> scope.prior, warning |-> FALSE]
    ELSE [active |-> vol, warning |-> TRUE]

----------------------------------------------------------------------------
(* Formatting of a report row (lines 83-95) *)

Unbound == <<>>

\* f"{bw_single} MiB/s"
FormatSingle(v) == <<v[1], "MiB/s">>

\* f"{bw_sum} MiB/s\n({bw_min}-{bw_max} MiB/s)"
FormatMulti(v) == <<v[3], "MiB/s", v[1], v[2], "MiB/s">>

Row(policy, b) ==
    [policy |-> policy,
     seq1   |-> FormatSingle(b["seq1"]),
     seqN   |-> FormatMulti(b["seqN"]),
     rand1  |-> FormatSingle(b["rand1"]),
     randN  |-> FormatMulti(b["randN"])]

\* One entry of the history: what happened (ev), in which loop iteration
\* (i), for which workload (w) and policy (pol), with which result (res),
\* and which policy was active on the volume when the step began (was).
Event(e, w, pol, res) ==
    [ev |-> e, i |-> idx, w |-> w, pol |-> pol, res |-> res, was |-> active]

----------------------------------------------------------------------------
(* main() *)

Init ==
    /\ args \in [loops : LoopsArgs, size : SizeArgs]
    /\ pc = "discover"
    /\ policies = <<>>
    /\ idx = 0
    /\ initial \in PolicyIds
    /\ active = initial
    /\ scopes = <<>>
    /\ bw = [w \in WorkloadSet |-> Unbound]
    /\ table = <<>>
    /\ err = "none"
    /\ log = <<>>
    /\ printed = <<>>

\* Line 59: btrfs.get_policies(fsid) returns the list the loop iterates.
Discover ==
    /\ pc = "discover"
    /\ \E ps \in PolicyLists : policies' = ps
    /\ log' = Append(log, Event("discover", "-", "-", <<>>))
    /\ pc' = "loop"
    /\ UNCHANGED <<args, idx, active, initial, scopes, bw, table, err, printed>>

\* Line 59: btrfs.get_policies(fsid) raises; nothing in main() catches it.
DiscoverFail ==
    /\ pc = "discover"
    /\ err' = "DiscoveryError"
    /\ log' = Append(log, Event("discover_fail", "-", "-", <<>>))
    /\ pc' = "failed"
    /\ UNCHANGED <<args, policies, idx, active, initial, scopes, bw, table, printed>>

\* Line 59: the for loop takes the next element of the list.
LoopNext ==
    /\ pc = "loop"
    /\ idx < Len(policies)
    /\ idx' = idx + 1
    /\ pc' = "enter"
    /\ UNCHANGED <<args, policies, active, initial, scopes, bw, table, err, log, printed>>

\* Variant: an empty list is treated as an error (policies[0] indexed).
LoopExitEmptyFails ==
    /\ pc = "loop"
    /\ idx = Len(policies)
    /\ IF policies = <<>>
       THEN pc' = "failed" /\ err' = "IndexError"
       ELSE pc' = "print" /\ err' = err
    /\ UNCHANGED <<args, policies, idx, active, initial, scopes, bw, table, log, printed>>

\* Variant: at the end of the list the loop starts over.
LoopExitRestarts ==
    /\ pc = "loop"
    /\ idx = Len(policies)
    /\ IF policies = <<>>
       THEN pc' = "print" /\ idx' = idx
       ELSE pc' = "loop" /\ idx' = 0
    /\ UNCHANGED <<args, policies, active, initial, scopes, bw, table, err, log, printed>>

\* Line 59: the list is exhausted; control passes to line 97.
LoopExit ==
    /\ pc = "loop"
    /\ idx = Len(policies)
    /\ pc' = "print"
    /\ UNCHANGED <<args, policies, idx, active, initial, scopes, bw, table, err, log, printed>>

\* Variant: the first policy of the list is activated in every iteration.
ActivateFirstPolicy ==
    /\ pc = "enter"
    /\ LET r == set_policy_enter(active, policies[1], TRUE) IN
         /\ active' = r.active
         /\ scopes' = <<r.scope>> \o scopes
    /\ log' = Append(log, Event("activate", "-", policies[idx], <<>>))
    /\ pc' = "seq1"
    /\ UNCHANGED <<args, policies, idx, initial, bw, table, err, printed>>

\* Line 60: the with statement enters set_policy(fsid, policy) and the
\* volume accepts the policy; the body starts at line 63.
Activate ==
    /\ pc = "enter"
    /\ LET r == set_policy_enter(active, policies[idx], TRUE) IN
         /\ active' = r.active
         /\ scopes' = <<r.scope>> \o scopes
    /\ log' = Append(log, Event("activate", "-", policies[idx], <<>>))
    /\ pc' = "seq1"
    /\ UNCHANGED <<args, policies, idx, initial, bw, table, err, printed>>

\* Variant: the rejected activation is ignored and the body runs anyway.
ActivateFailEntersBody ==
    /\ pc = "enter"
    /\ LET r == set_policy_enter(active, policies[idx], FALSE) IN
         /\ active' = r.active
         /\ err' = r.error
    /\ log' = Append(log, Event("activate_fail", "-", policies[idx], <<>>))
    /\ pc' = "seq1"
    /\ UNCHANGED <<args, policies, idx, initial, scopes, bw, table, printed>>

\* Variant: the rejected policy is skipped and the loop goes on.
ActivateFailSkipsPolicy ==
    /\ pc = "enter"
    /\ LET r == set_policy_enter(active, policies[idx], FALSE) IN
         /\ active' = r.active
         /\ err' = r.error
    /\ log' = Append(log, Event("activate_fail", "-", policies[idx], <<>>))
    /\ pc' = "loop"
    /\ UNCHANGED <<args, policies, idx, initial, scopes, bw, table, printed>>

\* Line 60: set_policy(fsid, policy) raises; the with body is not entered
\* and the exception leaves main().
ActivateFail ==
    /\ pc = "enter"
    /\ LET r == set_policy_enter(active, policies[idx], FALSE) IN
         /\ active' = r.active
         /\ err' = r.error
    /\ log' = Append(log, Event("activate_fail", "-", policies[idx], <<>>))
    /\ pc' = "failed"
    /\ UNCHANGED <<args, policies, idx, initial, scopes, bw, table, printed>>

\* Lines 63-81: one statement of the with body: the job is built, fio is run
\* on it and the result is assigned.  onError is where control goes when
\* either call raises.
RunStep(w, onError) ==
    /\ pc = w
    /\ LET job == build_job(w, args) IN
         IF job.error # "none"
         THEN /\ bw' = bw
              /\ log' = Append(log, Event("job_fail", w, policies[idx], <<>>))
              /\ pc' = onError
              /\ err' = job.error
         ELSE \E out \in GenOutcomes(job.thread_count) :
                LET r == run_fio_pipe(out, job.thread_count) IN
                  IF r.error = "none"
                  THEN /\ bw' = [bw EXCEPT ![w] = r.value]
                       /\ log' = Append(log, Event("run_ok", w, policies[idx], r.value))
                       /\ pc' = AfterRun(w)
                       /\ err' = err
                  ELSE /\ bw' = bw
                       /\ log' = Append(log, Event("run_fail", w, policies[idx], <<>>))
                       /\ pc' = onError
                       /\ err' = r.error
    /\ UNCHANGED <<args, policies, idx, active, initial, scopes, table, printed>>

\* Variant: an exception of the body leaves main() without passing through
\* the context manager's exit (no with statement around the body).
RunWorkloadNoUnwind(w) == RunStep(w, "failed")

\* Variant: a failing run is caught, a zero result stands in for it and the
\* body goes on.
RunWorkloadSwallow(w) ==
    /\ pc = w
    /\ \E out \in GenOutcomes(thread_count(w)) :
         LET r == run_fio_pipe(out, thread_count(w)) IN
           IF r.error = "none"
           THEN /\ bw' = [bw EXCEPT ![w] = r.value]
                /\ log' = Append(log, Event("run_ok", w, policies[idx], r.value))
           ELSE /\ bw' = [bw EXCEPT ![w] = <<0, 0, 0>>]
                /\ log' = Append(log, Event("run_fail", w, policies[idx], <<>>))
    /\ pc' = AfterRun(w)
    /\ UNCHANGED <<args, policies, idx, active, initial, scopes, table, err, printed>>

\* Variant: a failing run is tried again.
RunWorkloadRetry(w) == RunStep(w, w)

\* An exception raised inside the with block (line 60) leaves through the
\* context manager's exit.
RunWorkload(w) == RunStep(w, "unwind")

\* Variant: the scope is never left; the loop goes on with it open.
AppendRowNoExit ==
    /\ pc = "append"
    /\ table' = Append(table, Row(policies[idx], bw))
    /\ log' = Append(log, Event("row", "-", policies[idx], <<>>))
    /\ pc' = "loop"
    /\ UNCHANGED <<args, policies, idx, active, initial, scopes, bw, err, printed>>

\* Variant: the row is inserted at the front of the table.
PrependRow ==
    /\ pc = "append"
    /\ table' = <<Row(policies[idx], bw)>> \o table
    /\ log' = Append(log, Event("row", "-", policies[idx], <<>>))
    /\ pc' = "exit"
    /\ UNCHANGED <<args, policies, idx, active, initial, scopes, bw, err, printed>>

\* Variant: the table is printed each time a row is added.
AppendRowAndPrint ==
    /\ pc = "append"
    /\ table' = Append(table, Row(policies[idx], bw))
    /\ printed' = <<table'>>
    /\ log' = Append(log, Event("row", "-", policies[idx], <<>>))
    /\ pc' = "exit"
    /\ UNCHANGED <<args, policies, idx, active, initial, scopes, bw, err>>

\* Lines 83-95: the row of this policy is appended, still inside the with.
AppendRow ==
    /\ pc = "append"
    /\ table' = Append(table, Row(policies[idx], bw))
    /\ log' = Append(log, Event("row", "-", policies[idx], <<>>))
    /\ pc' = "exit"
    /\ UNCHANGED <<args, policies, idx, active, initial, scopes, bw, err, printed>>

\* Variant: the exception of the row construction leaves main() directly.
AppendRaiseNoUnwind ==
    /\ pc = "append"
    /\ err' = "Interrupted"
    /\ log' = Append(log, Event("row_fail", "-", policies[idx], <<>>))
    /\ pc' = "failed"
    /\ UNCHANGED <<args, policies, idx, active, initial, scopes, bw, table, printed>>

\* Lines 83-95: an exception (an interrupt, say) arrives while the row is
\* built; nothing is appended and the with block is left through its exit.
AppendRaise ==
    /\ pc = "append"
    /\ err' = "Interrupted"
    /\ log' = Append(log, Event("row_fail", "-", policies[idx], <<>>))
    /\ pc' = "unwind"
    /\ UNCHANGED <<args, policies, idx, active, initial, scopes, bw, table, printed>>

\* Leaving the innermost open set_policy context: one restoration write.
Release(next) ==
    /\ scopes # <<>>
    /\ \E writeOk \in BOOLEAN :
         LET r == set_policy_exit(active, Head(scopes), writeOk) IN
           /\ active' = r.active
           /\ log' = Append(log, Event(IF r.warning THEN "restore_fail" ELSE "restore",
                                      "-", Head(scopes).prior, <<>>))
    /\ scopes' = Tail(scopes)
    /\ pc' = next
    /\ UNCHANGED <<args, policies, idx, initial, bw, table, err, printed>>

\* Variant: the context is dropped without the restoration write.
Drop(next) ==
    /\ scopes # <<>>
    /\ scopes' = Tail(scopes)
    /\ pc' = next
    /\ UNCHANGED <<args, policies, idx, active, initial, bw, table, err, log, printed>>

ScopeExitWithoutRestore == pc = "exit" /\ Drop("loop")

UnwindWithoutRestore == pc = "unwind" /\ Drop("failed")

\* Variant: a failing restoration write is raised out of the with block.
ScopeExitRaisesRestoreFailure ==
    /\ pc = "exit"
    /\ scopes # <<>>
    /\ \E writeOk \in BOOLEAN :
         LET r == set_policy_exit(active, Head(scopes), writeOk) IN
           /\ active' = r.active
           /\ log' = Append(log, Event(IF r.warning THEN "restore_fail" ELSE "restore",
                                      "-", Head(scopes).prior, <<>>))
           /\ pc' = IF r.warning THEN "failed" ELSE "loop"
           /\ err' = IF r.warning THEN "RestoreError" ELSE err
    /\ scopes' = Tail(scopes)
    /\ UNCHANGED <<args, policies, idx, initial, bw, table, printed>>

\* Line 95 -> 59: the with block ends normally; the loop goes on.
ScopeExit == pc = "exit" /\ Release("loop")

\* The with block is left by an exception, which then leaves main().
ScopeUnwind == pc = "unwind" /\ Release("failed")

\* Line 97: the table is printed.
PrintTable ==
    /\ pc = "print"
    /\ printed' = <<table>>
    /\ log' = Append(log, Event("print", "-", "-", <<>>))
    /\ pc' = "done"
    /\ UNCHANGED <<args, policies, idx, active, initial, scopes, bw, table, err>>

Next ==
    \/ Discover
    \/ DiscoverFail
    \/ LoopNext
    \/ LoopExit
    \/ Activate
    \/ ActivateFail
    \/ \E w \in WorkloadSet : RunWorkload(w)
    \/ AppendRow
    \/ AppendRaise
    \/ ScopeExit
    \/ ScopeUnwind
    \/ PrintTable

Spec == Init /\ [][Next]_vars

\* main() is one thread: as long as each call returns, the next statement is
\* executed.
FairSpec == Spec /\ WF_vars(Next)

----------------------------------------------------------------------------
(* One call of fio.run_fio_pipe on its own, over all small fio outputs *)

\* The fio outputs the call is applied to: a non-zero exit status, or exit
\* status 0 with 0..tc+1 per-worker values of 1..MaxBw MiB/s in either unit.
TestOutcomes(tc) ==
    {[rc |-> 1, bws |-> <<>>]} \cup
    {[rc |-> 0, bws |-> s] :
        s \in UNION {[1..n -> {Raw(v, u) : v \in 1..MaxBw, u \in Units}] :
                        n \in 0..(tc + 1)}}

\* The fio output the history holds (the last event).
FioOutput ==
    [rc |-> IF log[Len(log)].ev = "fio_exit_0" THEN 0 ELSE 1,
     bws |-> log[Len(log)].res]

FioWorkload == log[Len(log)].w

InitFio ==
    /\ args = [loops |-> <<>>, size |-> "10M"]
    /\ pc = "fio_call"
    /\ policies = <<>>
    /\ idx = 0
    /\ initial \in PolicyIds
    /\ active = initial
    /\ scopes = <<>>
    /\ bw = [w \in WorkloadSet |-> Unbound]
    /\ table = <<>>
    /\ err = "none"
    /\ log = <<>>
    /\ printed = <<>>

\* fio is run on the job of some workload and exits.
FioInvoke ==
    /\ pc = "fio_call"
    /\ \E w \in WorkloadSet :
         \E out \in TestOutcomes(build_job(w, args).thread_count) :
             log' = Append(log, Event(IF out.rc = 0 THEN "fio_exit_0"
                                                    ELSE "fio_exit_nonzero",
                                      w, "-", out.bws))
    /\ pc' = "fio_parse"
    /\ UNCHANGED <<args, policies, idx, active, initial, scopes, bw, table, err, printed>>

\* LoadRunner.run parses the output into per-worker measurements, or raises.
FioRun ==
    /\ pc = "fio_parse"
    /\ LET r == run(FioOutput, thread_count(FioWorkload)) IN
         IF r.error = "none"
         THEN /\ bw' = [bw EXCEPT ![FioWorkload] = r.value]
              /\ pc' = "fio_reduce"
              /\ err' = err
         ELSE /\ bw' = bw
              /\ pc' = "fio_raised"
              /\ err' = r.error
    /\ UNCHANGED <<args, policies, idx, active, initial, scopes, table, log, printed>>

\* ResultAggregator.reduce turns the measurements into (min, max, sum).
FioReduce ==
    /\ pc = "fio_reduce"
    /\ LET a == reduce(bw[FioWorkload]) IN
         IF a.error = "none"
         THEN /\ bw' = [bw EXCEPT ![FioWorkload] = a.value]
              /\ pc' = "fio_returned"
              /\ err' = err
         ELSE /\ bw' = bw
              /\ pc' = "fio_raised"
              /\ err' = a.error
    /\ UNCHANGED <<args, policies, idx, active, initial, scopes, table, log, printed>>

NextFio ==
    \/ FioInvoke
    \/ FioRun
    \/ FioReduce

SpecFio == InitFio /\ [][NextFio]_vars

----------------------------------------------------------------------------
(* Reading the history *)

Last(s) == s[Len(s)]

EventsOf(e, i) == {k \in DOMAIN log : log[k].ev = e /\ log[k].i = i}

NoEvent(e) == \A k \in DOMAIN log : log[k].ev # e

\* The restoration attempts (successful or not) of iteration i.
RestoreAttempts(i) ==
    Cardinality(EventsOf("restore", i) \cup EventsOf("restore_fail", i))

\* The policy that was active when the activation of iteration i began.
BeforeActivate(i) ==
    log[CHOOSE k \in DOMAIN log : log[k].ev = "activate" /\ log[k].i = i].was

\* The result the successful run of workload w in iteration i returned.
ResultOf(i, w) ==
    log[CHOOSE k \in DOMAIN log :
            log[k].ev = "run_ok" /\ log[k].i = i /\ log[k].w = w].res

\* Iteration i has left its with statement (or never entered it).
IterationOver(i) == i < idx \/ pc \in {"loop", "print", "done", "failed"}

\* A step that closes the innermost open scope.
Released == scopes # <<>> /\ scopes' = Tail(scopes)

\* A step whose restoration write failed.
RestoreWriteFailed == Len(log') > Len(log) /\ Last(log').ev = "restore_fail"

IsActivate(e) == e.ev = "activate"

----------------------------------------------------------------------------
(* C1 *)

----------------------------------------------------------------------------
(* C2 *)

\* C2: every iteration whose activation succeeded and which is over has had
\* exactly one restoration attempt, however its body ended; no iteration
\* ever has two; an iteration whose activation failed has none.
C2_ExactlyOnce ==
    \A i \in 1..idx :
        /\ RestoreAttempts(i) <= Cardinality(EventsOf("activate", i))
        /\ Cardinality(EventsOf("activate", i)) <= 1
        /\ (EventsOf("activate", i) # {} /\ IterationOver(i))
               => RestoreAttempts(i) = 1
        /\ EventsOf("activate_fail", i) # {} => RestoreAttempts(i) = 0

\* The row construction of the second policy raised after its four runs
\* succeeded, and there was one restoration attempt.
C2_Witness ==
    /\ pc = "failed"
    /\ err = "Interrupted"
    /\ idx = 2
    /\ Cardinality(EventsOf("run_ok", idx)) = Len(Workloads)
    /\ RestoreAttempts(idx) = 1

----------------------------------------------------------------------------
(* C3 *)

\* C3: a step in which the activation fails with PolicyWriteError leaves the
\* active policy, the (empty) set of open scopes, the results and the table
\* as they were, and nothing of that iteration has happened before it; once
\* it has failed, no later step runs a workload or adds a row.
C3_FailedActivation ==
    [][/\ (pc = "enter" /\ err' = "PolicyWriteError")
            => /\ active' = active
               /\ scopes = <<>> /\ scopes' = <<>>
               /\ table' = table /\ bw' = bw
               /\ \A k \in DOMAIN log : log[k].i # idx
       /\ err = "PolicyWriteError"
            => /\ active' = active /\ scopes' = scopes
               /\ table' = table /\ log' = log]_vars

\* The second policy of the list was rejected after the first was
\* benchmarked; the volume still has the policy it had before the call.
C3_Witness ==
    /\ pc = "failed"
    /\ err = "PolicyWriteError"
    /\ Last(log).ev = "activate_fail"
    /\ Last(log).pol # active
    /\ Last(log).was = active
    /\ Len(table) = 1

----------------------------------------------------------------------------
(* C4 *)

\* C4: at most one scope is open in every state, and no scope is open when
\* an activation starts.
C4_OneScope ==
    /\ Len(scopes) <= 1
    /\ pc = "enter" => scopes = <<>>

\* The second policy's scope is open, the first one's released.
C4_Witness ==
    /\ pc = "seq1"
    /\ idx = 2
    /\ Len(scopes) = 1
    /\ RestoreAttempts(1) = 1

----------------------------------------------------------------------------
(* C5 *)

\* C5: in the failed terminal state no scope is open; when the failure is a
\* GeneratorExecutionError or GeneratorOutputError, the last thing that
\* happened is the restoration attempt of that iteration, right after the
\* failing run.
C5_RestoreBeforePropagate ==
    pc = "failed" =>
        /\ scopes = <<>>
        /\ err \in GeneratorErrors =>
              /\ Len(log) >= 2
              /\ Last(log).ev \in {"restore", "restore_fail"}
              /\ Last(log).i = idx
              /\ log[Len(log) - 1].ev = "run_fail"
              /\ log[Len(log) - 1].i = idx

\* The third run of a policy reported the wrong number of workers.
C5_Witness ==
    /\ pc = "failed"
    /\ err = "GeneratorOutputError"
    /\ log[Len(log) - 1].w = "rand1"
    /\ Last(log).ev = "restore"

----------------------------------------------------------------------------
(* C6 *)

\* C6: the table has one row per row event; a row of iteration i is appended
\* only after the four workloads of iteration i have each succeeded, and it
\* carries the formatted results of those four runs; an iteration in which a
\* run failed has no row.
C6_RowAtomicity ==
    /\ Len(table) = Cardinality({k \in DOMAIN log : log[k].ev = "row"})
    /\ \A k \in DOMAIN log :
          log[k].ev = "row" =>
              /\ \A w \in WorkloadSet :
                    \E j \in 1..(k - 1) :
                        log[j].ev = "run_ok" /\ log[j].i = log[k].i /\ log[j].w = w
              /\ log[k].i <= Len(table)
              /\ table[log[k].i] =
                     Row(policies[log[k].i],
                         [w \in WorkloadSet |-> ResultOf(log[k].i, w)])
    /\ \A i \in 1..idx :
          (EventsOf("run_fail", i) \cup EventsOf("job_fail", i)) # {}
              => EventsOf("row", i) = {} /\ Len(table) < i

\* The fourth run of the second policy failed after three succeeded; the
\* table holds the row of the first policy only.
C6_Witness ==
    /\ pc = "failed"
    /\ idx = 2
    /\ \E k \in EventsOf("run_fail", 2) : log[k].w = "randN"
    /\ Len(table) = 1

----------------------------------------------------------------------------
(* C7 *)

\* C7: when the loop has finished, the policies of the rows are the list
\* get_policies returned, element for element; so are the policies
\* activated, and each position of the list has had its four runs.
C7_PassThrough ==
    pc \in {"print", "done"} =>
        /\ Len(table) = Len(policies)
        /\ \A k \in DOMAIN policies : table[k].policy = policies[k]
        /\ LET acts == SelectSeq(log, IsActivate) IN
              /\ Len(acts) = Len(policies)
              /\ \A k \in DOMAIN policies :
                    acts[k].i = k /\ acts[k].pol = policies[k]
        /\ \A k \in DOMAIN policies :
              /\ Cardinality(EventsOf("run_ok", k)) = Len(Workloads)
              /\ \A j \in EventsOf("run_ok", k) : log[j].was = policies[k]

\* A list that names the same policy twice produced two rows.
C7_Witness ==
    /\ pc = "done"
    /\ Len(policies) = 2
    /\ policies[1] = policies[2]
    /\ Len(table) = 2

----------------------------------------------------------------------------
(* C8 *)

\* C8: in every state in which no scope is open and no restoration write has
\* failed, the active policy is the one that was active when main() started.
C8_WholeRun ==
    (scopes = <<>> /\ NoEvent("restore_fail")) => active = initial

\* Two policies were benchmarked, the last one different from the initial
\* policy, and the initial policy is active at the end.
C8_Witness ==
    /\ pc = "done"
    /\ Len(policies) = 2
    /\ policies[2] # initial
    /\ NoEvent("restore_fail")
    /\ active = initial

----------------------------------------------------------------------------
(* C9 *)

\* C9: once get_policies has returned the empty list, main() is at the loop
\* head, at the print or done; it has no error, no row, no open scope, the
\* volume untouched, and nothing happened but the discovery and the print
\* (of an empty table); until it is done it can take a further step.
C9_EmptyList ==
    (pc # "discover" /\ policies = <<>> /\ err # "DiscoveryError") =>
        /\ pc \in {"loop", "print", "done"}
        /\ err = "none"
        /\ table = <<>>
        /\ scopes = <<>>
        /\ active = initial
        /\ idx = 0
        /\ \A k \in DOMAIN log : log[k].ev \in {"discover", "print"}
        /\ pc = "done" => printed = << <<>> >>
        /\ pc # "done" => ENABLED Next

\* The benchmark of an empty list finished.
C9_Witness ==
    /\ pc = "done"
    /\ policies = <<>>
    /\ Last(log).ev = "print"

----------------------------------------------------------------------------
(* C10 *)

\* C10: a failed discovery or a failed activation is the last thing that
\* happens: main() is in its failed state with that error, nothing was
\* printed, no scope is open; after a failed discovery nothing was activated
\* or run at all, and after the failed activation of the i-th policy the
\* loop is still at i and nothing of iteration i or later was run.
C10_Abort ==
    \A k \in DOMAIN log :
        log[k].ev \in {"discover_fail", "activate_fail"} =>
            /\ k = Len(log)
            /\ pc = "failed"
            /\ err = (IF log[k].ev = "discover_fail"
                      THEN "DiscoveryError" ELSE "PolicyWriteError")
            /\ scopes = <<>>
            /\ printed = <<>>
            /\ idx = log[k].i
            /\ \A j \in DOMAIN log :
                  log[j].ev \in {"activate", "run_ok", "run_fail", "job_fail", "row"}
                      => log[j].i < log[k].i

\* The first of two policies was rejected; the second was never activated.
C10_Witness ==
    /\ pc = "failed"
    /\ err = "PolicyWriteError"
    /\ idx = 1
    /\ Len(policies) = 2
    /\ NoEvent("activate")

----------------------------------------------------------------------------
(* C11 *)

FailureEvents == {"discover_fail", "activate_fail", "job_fail", "run_fail", "row_fail"}

RunEvents == {"run_ok", "run_fail"}

\* C11: a restoration write that fails right after the row of its iteration
\* was appended is only recorded: the row stays in the table; main() does
\* not fail unless something later fails; if it is the last thing that
\* happened, main() is at the loop head, about to activate the next policy
\* or about to print, without error; and when the loop
\* has finished, every later policy of the list was activated, had its four
\* runs and got its row.
C11_RestoreFailureNonFatal ==
    \A k \in DOMAIN log :
        (log[k].ev = "restore_fail" /\ log[k - 1].ev = "row") =>
            /\ Len(table) >= log[k].i
            /\ table[log[k].i].policy = policies[log[k].i]
            /\ k = Len(log) => (pc \in {"loop", "enter", "print"} /\ err = "none")
            /\ pc = "failed" =>
                  \E j \in (k + 1)..Len(log) : log[j].ev \in FailureEvents
            /\ pc \in {"print", "done"} =>
                  \A i \in (log[k].i + 1)..Len(policies) :
                      /\ EventsOf("activate", i) # {}
                      /\ Cardinality(EventsOf("run_ok", i)) = Len(Workloads)
                      /\ EventsOf("row", i) # {}

\* The restoration after the first of two policies failed, and both
\* policies have their rows at the end.
C11_Witness ==
    /\ pc = "done"
    /\ Len(policies) = 2
    /\ EventsOf("restore_fail", 1) # {}
    /\ Len(table) = 2

----------------------------------------------------------------------------
(* C12 *)

\* C12: in every iteration each workload is invoked at most once, and a
\* failed invocation is the last invocation and the last activation of the
\* whole execution.
C12_NoRetries ==
    /\ \A i \in 1..idx : \A w \in WorkloadSet :
          Cardinality({k \in DOMAIN log :
              log[k].ev \in RunEvents /\ log[k].i = i /\ log[k].w = w}) <= 1
    /\ \A k \in DOMAIN log :
          log[k].ev = "run_fail" =>
              \A j \in (k + 1)..Len(log) :
                  log[j].ev \notin (RunEvents \cup {"activate", "row", "job_fail"})

\* The first run of the first of two policies failed; nothing else was run.
C12_Witness ==
    /\ pc = "failed"
    /\ err = "GeneratorExecutionError"
    /\ Len(policies) = 2
    /\ Cardinality({k \in DOMAIN log : log[k].ev \in RunEvents}) = 1

----------------------------------------------------------------------------
(* C13 *)

\* The bandwidth in MiB/s that the raw report m stands for.
MiBOf(m) ==
    IF m[2] = "MiB/s" THEN m[1]
    ELSE CHOOSE v \in 1..MaxBw : 1024 * v = m[1]

\* The per-worker bandwidths, in MiB/s, of the fio output in the history.
FioMeasured == [k \in 1..Len(FioOutput.bws) |-> MiBOf(FioOutput.bws[k])]

\* C13: when run succeeds on a fio output, it returns exactly thread_count
\* measurements, one per reported value, in order; when fio exited with
\* status 0 and reported a number of values different from thread_count,
\* run raises GeneratorOutputError and nothing is returned or aggregated.
C13_MeasurementCount ==
    pc # "fio_call" =>
        /\ pc = "fio_reduce" =>
              /\ Len(bw[FioWorkload]) = thread_count(FioWorkload)
              /\ bw[FioWorkload] = FioMeasured
        /\ (pc # "fio_parse" /\ FioOutput.rc = 0
                /\ Len(FioOutput.bws) # thread_count(FioWorkload)) =>
              /\ pc = "fio_raised"
              /\ err = "GeneratorOutputError"
              /\ bw[FioWorkload] = Unbound

\* fio reported one value more than the job has threads, and run raised.
C13_Witness ==
    /\ pc = "fio_raised"
    /\ err = "GeneratorOutputError"
    /\ Len(FioOutput.bws) = thread_count(FioWorkload) + 1

----------------------------------------------------------------------------
(* C14 *)

\* The arithmetic total of the sequence ms of values in 1..MaxBw: each value
\* times the number of positions that hold it.
RECURSIVE TotalUpTo(_, _)
TotalUpTo(ms, v) ==
    IF v = 0 THEN 0
    ELSE v * Cardinality({k \in DOMAIN ms : ms[k] = v}) + TotalUpTo(ms, v - 1)

\* C14: the (min, max, sum) returned for a non-empty sequence of
\* measurements has min <= every element <= max, min and max among the
\* elements and sum their total; for one measurement all three are that
\* measurement, and so is the value main() formats for a single-thread run.
C14_Aggregation ==
    pc = "fio_returned" =>
        LET ms == FioMeasured
            r  == bw[FioWorkload]
        IN  /\ ms # <<>>
            /\ r = run_fio_pipe(FioOutput, thread_count(FioWorkload)).value
            /\ \A k \in DOMAIN ms : r[1] <= ms[k] /\ ms[k] <= r[2]
            /\ \E k \in DOMAIN ms : ms[k] = r[1]
            /\ \E k \in DOMAIN ms : ms[k] = r[2]
            /\ r[3] = TotalUpTo(ms, MaxBw)
            /\ Len(ms) = 1 =>
                  /\ r = <<ms[1], ms[1], ms[1]>>
                  /\ FormatSingle(r) = <<ms[1], "MiB/s">>

\* Two workers with different bandwidths, the larger one first.
C14_Witness ==
    /\ pc = "fio_returned"
    /\ Len(FioOutput.bws) = 2
    /\ FioMeasured[1] > FioMeasured[2]
    /\ bw[FioWorkload][1] < bw[FioWorkload][2]

----------------------------------------------------------------------------
(* C15 *)

\* The command line gives an empty size, or a loop count that is not
\* positive.
InvalidArgs == args.size = "" \/ (args.loops # <<>> /\ args.loops[1] < 1)

\* C15: each of the four job builders raises InvalidSpecError exactly when
\* the size is empty or the loop count is given and not positive (an absent
\* loop count is accepted); with such parameters fio is never invoked and
\* the first descriptor built ends main() with InvalidSpecError; a
\* descriptor whose construction failed is never run.
C15_JobValidation ==
    /\ \A w \in WorkloadSet :
          (build_job(w, args).error = "InvalidSpecError") <=> InvalidArgs
    /\ InvalidArgs =>
          /\ \A k \in DOMAIN log : log[k].ev \notin RunEvents
          /\ \A k \in DOMAIN log :
                log[k].ev = "job_fail" => (log[k].i = 1 /\ log[k].w = "seq1")
          /\ pc \in (WorkloadSet \cup {"append", "exit"}) => pc = "seq1"
    /\ ~InvalidArgs => (NoEvent("job_fail") /\ err # "InvalidSpecError")
    /\ \A k \in DOMAIN log :
          log[k].ev = "job_fail" =>
              /\ \A j \in DOMAIN log :
                    log[j].ev \in RunEvents =>
                        ~(log[j].i = log[k].i /\ log[j].w = log[k].w)
              /\ pc \in {"unwind", "failed"}
              /\ err = "InvalidSpecError"

\* --loops 0 with a valid size: the first descriptor was refused and fio
\* never ran.
C15_Witness ==
    /\ pc = "failed"
    /\ err = "InvalidSpecError"
    /\ args.loops = <<0>>
    /\ args.size # ""
    /\ \A k \in DOMAIN log : log[k].ev \notin RunEvents

----------------------------------------------------------------------------
(* C16 *)

WorkloadPos(w) == CHOOSE k \in 1..Len(Workloads) : Workloads[k] = w

\* k and j are the places in the history of two fio invocations with no
\* invocation between them.
ConsecutiveRuns(k, j) ==
    /\ k < j
    /\ log[k].ev \in RunEvents
    /\ log[j].ev \in RunEvents
    /\ \A m \in (k + 1)..(j - 1) : log[m].ev \notin RunEvents

\* C16: the first invocation of an execution is sequential/1-thread of the
\* first policy; an invocation is followed by another only if it succeeded,
\* and then by the next workload of the same iteration, or, after
\* random/N-thread, by sequential/1-thread of the next iteration, with the
\* release of the one scope and the activation of the next between them.
C16_WorkloadOrder ==
    /\ \A j \in DOMAIN log :
          (log[j].ev \in RunEvents
              /\ \A m \in 1..(j - 1) : log[m].ev \notin RunEvents)
              => (log[j].i = 1 /\ log[j].w = "seq1")
    /\ \A k, j \in DOMAIN log :
          ConsecutiveRuns(k, j) =>
              /\ log[k].ev = "run_ok"
              /\ \/ /\ log[j].i = log[k].i
                    /\ WorkloadPos(log[j].w) = WorkloadPos(log[k].w) + 1
                    /\ j = k + 1
                 \/ /\ log[j].i = log[k].i + 1
                    /\ log[k].w = "randN"
                    /\ log[j].w = "seq1"
                    /\ \E r, a \in (k + 1)..(j - 1) :
                          /\ r < a
                          /\ log[r].ev \in {"restore", "restore_fail"}
                          /\ log[r].i = log[k].i
                          /\ log[a].ev = "activate"
                          /\ log[a].i = log[j].i

\* Two policies had their four runs each.
C16_Witness ==
    /\ pc = "done"
    /\ Len(policies) = 2
    /\ Cardinality({k \in DOMAIN log : log[k].ev = "run_ok"}) = 2 * Len(Workloads)

----------------------------------------------------------------------------
(* C17 *)

RestoreEvents == {"restore", "restore_fail"}

\* C17 as stated: the row of an iteration is appended only after the
\* restoration of that iteration.
C17_Original ==
    \A k \in DOMAIN log :
        log[k].ev = "row" =>
            \E j \in 1..(k - 1) :
                log[j].ev \in RestoreEvents /\ log[j].i = log[k].i

\* C17, amended: the row of an iteration is appended right after its
\* random/N-thread run, with the scope still open and no restoration of
\* that iteration before it; the restoration of a successful iteration is
\* what comes right after the row.  (A restoration is otherwise preceded by
\* the failure that left the with block.)
C17_RowBeforeRestore ==
    /\ \A k \in DOMAIN log :
          log[k].ev = "row" =>
              /\ k > 1
              /\ log[k - 1].ev = "run_ok"
              /\ log[k - 1].w = "randN"
              /\ log[k - 1].i = log[k].i
              /\ \A j \in 1..(k - 1) :
                    ~(log[j].ev \in RestoreEvents /\ log[j].i = log[k].i)
              /\ k = Len(log) => (pc = "exit" /\ Len(scopes) = 1)
              /\ k < Len(log) =>
                    (log[k + 1].ev \in RestoreEvents /\ log[k + 1].i = log[k].i)
    /\ \A k \in DOMAIN log :
          log[k].ev \in RestoreEvents =>
              /\ k > 1
              /\ log[k - 1].i = log[k].i
              /\ log[k - 1].ev \in {"row", "run_fail", "job_fail", "row_fail"}

\* The first iteration ended: its row was appended, then the prior policy
\* was restored.
C17_Witness ==
    /\ pc = "loop"
    /\ idx = 1
    /\ Last(log).ev = "restore"
    /\ log[Len(log) - 1].ev = "row"
    /\ Len(table) = 1

----------------------------------------------------------------------------
(* C18 *)

\* C18: whenever main() is inside the with block, one scope is open, it is
\* the scope of the current policy, and that policy is active on the volume;
\* every step of an iteration after its activation (each run, the row, the
\* restoration write) found the policy of that iteration active.
C18_MeasuredUnderPolicy ==
    /\ pc \in (WorkloadSet \cup {"append", "exit", "unwind"}) =>
          /\ Len(scopes) = 1
          /\ Head(scopes).policy = policies[idx]
          /\ active = policies[idx]
    /\ \A k \in DOMAIN log :
          (log[k].i >= 1 /\ log[k].ev \notin {"activate", "activate_fail", "print"}) =>
              log[k].was = policies[log[k].i]
    /\ \A k \in DOMAIN log :
          log[k].ev = "row" => table[log[k].i].policy = log[k].was

\* The last run of the second policy is about to start under that policy,
\* which differs from the first.
C18_Witness ==
    /\ pc = "randN"
    /\ idx = 2
    /\ policies[1] # policies[2]
    /\ active = policies[2]

----------------------------------------------------------------------------
(* C19 *)

\* C19: something is printed only when main() is done, without error, and
\* it is the whole table, one row per policy of the list; in the failed
\* state nothing was printed, whatever the table holds.
C19_AllOrNothing ==
    /\ printed # <<>> =>
          /\ pc = "done"
          /\ err = "none"
          /\ printed = <<table>>
          /\ Len(table) = Len(policies)
    /\ pc # "done" => printed = <<>>
    /\ pc = "failed" => (err # "none" /\ NoEvent("print"))

\* A run of the second policy failed; the row of the first policy is in the
\* table and nothing was printed.
C19_Witness ==
    /\ pc = "failed"
    /\ err \in GeneratorErrors
    /\ Len(table) = 1
    /\ printed = <<>>

----------------------------------------------------------------------------
(* C20 *)

Terminated == pc \in {"done", "failed"}

\* C20: main() eventually terminates; when it is done, the loop has passed
\* the whole list and every element has had exactly one activation, four
\* fio invocations and one restoration attempt; when it has failed, exactly
\* one step failed and nothing but the restoration of the open scope came
\* after it; the loop position only ever moves one element forward.
C20_Termination ==
    /\ <>Terminated
    /\ [](pc = "done" =>
            /\ idx = Len(policies)
            /\ \A i \in DOMAIN policies :
                  /\ Cardinality(EventsOf("activate", i)) = 1
                  /\ Cardinality(EventsOf("run_ok", i)) = Len(Workloads)
                  /\ EventsOf("run_fail", i) = {}
                  /\ RestoreAttempts(i) = 1)
    /\ [](pc = "failed" =>
            /\ Cardinality({k \in DOMAIN log : log[k].ev \in FailureEvents}) = 1
            /\ \A k \in DOMAIN log :
                  log[k].ev \in FailureEvents =>
                      /\ k >= Len(log) - 1
                      /\ k < Len(log) => Last(log).ev \in RestoreEvents)
    /\ [][idx' # idx => (idx' = idx + 1 /\ idx' <= Len(policies))]_vars

\* Both policies of a list of two were processed and main() is done.
C20_Witness ==
    /\ pc = "done"
    /\ idx = 2
    /\ RestoreAttempts(1) = 1
    /\ RestoreAttempts(2) = 1

====
